---- MODULE Spec2Model ----
(***************************************************************************)
(* Model of bokeh/util/session_id.py: generation and verification of       *)
(* (optionally signed) session ids.                                        *)
(*                                                                         *)
(* Strings are sequences of Unicode code points, bytes objects are         *)
(* sequences of integers in 0..255.  A secret key argument is a record     *)
(* [type, val]: type "None", "bytes" (val: bytes) or "str" (val: code      *)
(* points).  The value a call ends with is a record                        *)
(* [kind, str, bool, exc]: kind "str" (a returned string), "bool" (a       *)
(* returned boolean), "none" (returned None) or "raise" (an exception).    *)
(***************************************************************************)
EXTENDS Integers, Sequences, FiniteSets, TLC

(***************************************************************************)
(* Bounds of the model.                                                    *)
(***************************************************************************)
\* Length of the random string drawn by the calls of the model; the
\* default of _get_random_string's `length` parameter is 44.
Length == 3
\* The fallback generator's state ranges over 0..RngMod-1.
RngMod == 2
\* time.time() returns a value in 0..MaxTime.
MaxTime == 1
\* Longest session id handed to check_session_id_signature that was not
\* derived from a generated one.
MaxFree == 3

\* Callers: the sequential specification runs one, the concurrent one all.
Threads == {"t1", "t2"}
MainThread == {"t1"}

(***************************************************************************)
(* Characters.                                                             *)
(***************************************************************************)
\* '-', the separator of a signed session id (lines 84, 106)
HYPHEN == 45
\* '=', the base64 padding character (line 175)
PAD == 61

\* allowed_chars (lines 184-185): a-z, A-Z, 0-9
allowed_chars ==
    [i \in 1..62 |-> IF i <= 26 THEN 96 + i
                     ELSE IF i <= 52 THEN 64 + (i - 26)
                     ELSE 47 + (i - 52)]

\* Indices of allowed_chars the system generator is let to draw
\* ('a', 'A', '0'): a bounded sample of random.choice's outcomes.
DrawIndices == {1, 27, 53}

\* Characters a tampered or free session id may hold: 'a', '-', '=', and
\* the non-ASCII U+00E9.
TokenChars == {97, 45, 61, 233}

(***************************************************************************)
(* Values                                                                  *)
(***************************************************************************)
NoneKey == [type |-> "None", val |-> << >>]
BytesKey(b) == [type |-> "bytes", val |-> b]
StrKey(s) == [type |-> "str", val |-> s]

\* secret_key arguments of the model: None, b"k", "k", and the text
\* U+00E9 (two bytes once encoded).
Keys == {NoneKey, BytesKey(<<107>>), StrKey(<<107>>), StrKey(<<233>>)}

RetStr(s) == [kind |-> "str", str |-> s, bool |-> FALSE, exc |-> ""]
RetBool(b) == [kind |-> "bool", str |-> << >>, bool |-> b, exc |-> ""]
RetNone == [kind |-> "none", str |-> << >>, bool |-> FALSE, exc |-> ""]
Raise(e) == [kind |-> "raise", str |-> << >>, bool |-> FALSE, exc |-> e]

(***************************************************************************)
(* codecs.encode(s, 'utf-8') on a string of Unicode scalar values.         *)
(***************************************************************************)
Utf8Char(c) ==
    IF c < 128 THEN <<c>>
    ELSE IF c < 2048 THEN <<192 + (c \div 64), 128 + (c % 64)>>
    ELSE IF c < 65536
        THEN <<224 + (c \div 4096), 128 + ((c \div 64) % 64), 128 + (c % 64)>>
    ELSE <<240 + (c \div 262144), 128 + ((c \div 4096) % 64),
           128 + ((c \div 64) % 64), 128 + (c % 64)>>

RECURSIVE Utf8Encode(_)
Utf8Encode(s) ==
    IF s = << >> THEN << >> ELSE Utf8Char(Head(s)) \o Utf8Encode(Tail(s))

\* _ensure_bytes (lines 146-152)
_ensure_bytes(secret_key) ==
    IF secret_key.type = "None" THEN NoneKey
    ELSE IF secret_key.type = "bytes" THEN secret_key
    ELSE BytesKey(Utf8Encode(secret_key.val))

(***************************************************************************)
(* base64.urlsafe_b64encode, and _base64_encode (lines 167-175)            *)
(***************************************************************************)
\* The url-safe base64 alphabet: A-Z a-z 0-9 - _
B64Char(v) ==
    IF v < 26 THEN 65 + v
    ELSE IF v < 52 THEN 97 + (v - 26)
    ELSE IF v < 62 THEN 48 + (v - 52)
    ELSE IF v = 62 THEN 45
    ELSE 95

RECURSIVE urlsafe_b64encode(_)
urlsafe_b64encode(b) ==
    IF Len(b) = 0 THEN << >>
    ELSE IF Len(b) = 1 THEN
        <<B64Char(b[1] \div 4), B64Char((b[1] % 4) * 16), PAD, PAD>>
    ELSE IF Len(b) = 2 THEN
        <<B64Char(b[1] \div 4),
          B64Char((b[1] % 4) * 16 + (b[2] \div 16)),
          B64Char((b[2] % 16) * 4), PAD>>
    ELSE
        <<B64Char(b[1] \div 4),
          B64Char((b[1] % 4) * 16 + (b[2] \div 16)),
          B64Char((b[2] % 16) * 4 + (b[3] \div 64)),
          B64Char(b[3] % 64)>> \o urlsafe_b64encode(SubSeq(b, 4, Len(b)))

\* str.rstrip('=')
RECURSIVE rstrip(_, _)
rstrip(s, c) ==
    IF Len(s) > 0 /\ s[Len(s)] = c THEN rstrip(SubSeq(s, 1, Len(s) - 1), c)
    ELSE s

\* A mutant of _base64_encode: the padding is kept.
_base64_encode_padded(decoded) ==
    urlsafe_b64encode(decoded)

_base64_encode(decoded) ==
    rstrip(urlsafe_b64encode(decoded), PAD)

(***************************************************************************)
(* hmac.new(key, msg, hashlib.sha256).digest() (line 180).                 *)
(* HMAC-SHA256 is modelled as a deterministic keyed function onto          *)
(* digest_size bytes that has no collisions on the inputs of the model     *)
(* (the usual idealisation of a MAC): the lengths, the key and the message *)
(* are packed into the digest_size positions, folded when they do not fit, *)
(* and each position goes through a bijection on bytes.                    *)
(***************************************************************************)
digest_size == 32

HmacPacked(key, msg) == <<Len(key), Len(msg)>> \o key \o msg

RECURSIVE HmacFold(_, _, _)
HmacFold(p, i, acc) ==
    IF i > Len(p) THEN acc
    ELSE HmacFold(p, i + digest_size, (acc + p[i]) % 256)

HmacSha256(key, msg) ==
    LET p == HmacPacked(key, msg)
    IN [i \in 1..digest_size |-> (HmacFold(p, i, 0) * 77 + i * 59 + 131) % 256]

\* A mutant of _signature: an absent key is replaced by the empty key.
_signature_default_key(base_id, secret_key) ==
    LET k == _ensure_bytes(secret_key)
    IN RetStr(_base64_encode(HmacSha256(k.val, Utf8Encode(base_id))))

\* _signature (lines 177-181); hmac.new raises TypeError on a None key
_signature(base_id, secret_key) ==
    LET k == _ensure_bytes(secret_key)
    IN IF k.type = "None" THEN Raise("TypeError")
       ELSE RetStr(_base64_encode(HmacSha256(k.val, Utf8Encode(base_id))))

(***************************************************************************)
(* str.split and hmac.compare_digest                                       *)
(***************************************************************************)
\* str.find: the index of the first c at or after i, 0 when there is none
RECURSIVE find(_, _, _)
find(s, c, i) ==
    IF i > Len(s) THEN 0
    ELSE IF s[i] = c THEN i
    ELSE find(s, c, i + 1)

\* A mutant of split_once: s.split(sep), every separator splits.
RECURSIVE split_every(_, _)
split_every(s, sep) ==
    LET i == find(s, sep, 1)
    IN IF i = 0 THEN <<s>>
       ELSE <<SubSeq(s, 1, i - 1)>> \o split_every(SubSeq(s, i + 1, Len(s)), sep)

\* Index of the last c in s, 0 when there is none
RECURSIVE rfind(_, _, _)
rfind(s, c, i) ==
    IF i < 1 THEN 0
    ELSE IF s[i] = c THEN i
    ELSE rfind(s, c, i - 1)

\* A mutant of split_once: s.rsplit(sep, 1), the last separator splits.
split_last(s, sep) ==
    LET i == rfind(s, sep, Len(s))
    IN IF i = 0 THEN <<s>>
       ELSE <<SubSeq(s, 1, i - 1), SubSeq(s, i + 1, Len(s))>>

\* s.split(sep, 1) (line 106)
split_once(s, sep) ==
    LET i == find(s, sep, 1)
    IN IF i = 0 THEN <<s>>
       ELSE <<SubSeq(s, 1, i - 1), SubSeq(s, i + 1, Len(s))>>

IsAscii(s) == \A i \in 1..Len(s) : s[i] < 128

\* hmac.compare_digest on two str arguments (line 114): TypeError unless
\* both are ASCII, else whether they are equal.
compare_digest(a, b) ==
    IF ~(IsAscii(a) /\ IsAscii(b)) THEN Raise("TypeError")
    ELSE RetBool(a = b)

(***************************************************************************)
(* check_session_id_signature (lines 88-115): a pure function.  The result *)
(* is [ret, sigs]: how the call ends, and the number of signatures it      *)
(* computed.                                                               *)
(***************************************************************************)
\* A mutant of check_session_id_signature: `signed` is not consulted.
check_session_id_signature_always(session_id, secret_key, signed) ==
    LET k == _ensure_bytes(secret_key)
        pieces == split_once(session_id, HYPHEN)
    IN IF Len(pieces) # 2 THEN [ret |-> RetBool(FALSE), sigs |-> 0]
       ELSE LET expected_signature == _signature(pieces[1], k)
            IN IF expected_signature.kind = "raise"
               THEN [ret |-> expected_signature, sigs |-> 1]
               ELSE [ret |-> compare_digest(expected_signature.str, pieces[2]),
                     sigs |-> 1]

check_session_id_signature(session_id, secret_key, signed) ==
    LET k == _ensure_bytes(secret_key)
    IN IF signed THEN
           LET pieces == split_once(session_id, HYPHEN)
           IN IF Len(pieces) # 2 THEN [ret |-> RetBool(FALSE), sigs |-> 0]
              ELSE LET base_id == pieces[1]
                       provided_signature == pieces[2]
                       expected_signature == _signature(base_id, k)
                   IN IF expected_signature.kind = "raise"
                      THEN [ret |-> expected_signature, sigs |-> 1]
                      ELSE [ret |-> compare_digest(expected_signature.str,
                                                   provided_signature),
                            sigs |-> 1]
       ELSE [ret |-> RetBool(TRUE), sigs |-> 0]

(***************************************************************************)
(* The fallback generator (the random module's Mersenne Twister), as a     *)
(* deterministic generator over 0..RngMod-1, and the seed derived from     *)
(* sha256 of the re-seed data (lines 164-165).                             *)
(***************************************************************************)
RECURSIVE SumSeq(_)
SumSeq(s) == IF s = << >> THEN 0 ELSE Head(s) + SumSeq(Tail(s))

\* random.seed(hashlib.sha256(data).digest()): the state the data leads to
SeedFromData(data) ==
    (data.state * 7 + data.time * 3
        + (IF data.key.type = "None" THEN 0 ELSE 1 + SumSeq(data.key.val)))
    % RngMod

\* random.choice on the fallback generator: the index drawn, the next state
MtChoice(state, n) == ((state * 23 + 5) % n) + 1
MtNext(state) == (state + 1) % RngMod

Times == 0..MaxTime

(***************************************************************************)
(* State                                                                   *)
(***************************************************************************)
VARIABLES
    using_sysrandom,   \* line 201: whether `random` is a SystemRandom
    mt_state,          \* state of the fallback generator (0 when unused)
    frame              \* per caller: the call it is in

vars == <<using_sysrandom, mt_state, frame>>

\* frame[t]:
\*   pc          "idle", "reseed" (line 194), "seed" (between lines 164 and
\*               165), "draw" (line 195), "returned"
\*   op          the public or private function called
\*   secret_key, signed, session_id, flag     its arguments (flag is
\*               _reseed_if_needed's using_sysrandom argument)
\*   buf         characters drawn so far
\*   data        the re-seed data built at line 164
\*   ret         how the call ended
\*   reseeds, sigs   number of random.seed / _signature calls of the call
\*   origin      where a checked session id came from
NoData == [state |-> 0, time |-> 0, key |-> NoneKey]

IdleFrame ==
    [pc |-> "idle", op |-> "", secret_key |-> NoneKey, signed |-> FALSE,
     session_id |-> << >>, flag |-> FALSE, buf |-> << >>, data |-> NoData,
     ret |-> RetNone, reseeds |-> 0, sigs |-> 0, origin |-> ""]

Ready(t) == frame[t].pc \in {"idle", "returned"}

\* _get_sysrandom (lines 125-144) run at line 201: either outcome; the
\* fallback generator starts in any state.
Init ==
    /\ using_sysrandom \in BOOLEAN
    /\ mt_state \in (IF using_sysrandom THEN {0} ELSE 0..(RngMod - 1))
    /\ frame = [t \in Threads |-> IdleFrame]

Enter(t, op, key, signed, flag) ==
    frame' = [frame EXCEPT ![t] =
                 [IdleFrame EXCEPT !.pc = "reseed", !.op = op,
                                   !.secret_key = key, !.signed = signed,
                                   !.flag = flag]]

\* generate_session_id called (lines 58, 80-83 / 86): enters
\* _get_random_string, which passes the module's using_sysrandom on.
generate_session_id(t) ==
    /\ Ready(t)
    /\ \E key \in Keys, signed \in BOOLEAN :
           Enter(t, "generate_session_id", key, signed, using_sysrandom)
    /\ UNCHANGED <<using_sysrandom, mt_state>>

\* generate_secret_key called (lines 50-56); secret_key is the configured
\* default of _get_random_string.
generate_secret_key(t) ==
    /\ Ready(t)
    /\ \E key \in Keys :
           Enter(t, "generate_secret_key", key, FALSE, using_sysrandom)
    /\ UNCHANGED <<using_sysrandom, mt_state>>

\* _reseed_if_needed called on its own, as its unit test does (line 155).
call_reseed_if_needed(t) ==
    /\ Ready(t)
    /\ \E key \in Keys, flag \in BOOLEAN :
           Enter(t, "_reseed_if_needed", key, FALSE, flag)
    /\ UNCHANGED <<using_sysrandom, mt_state>>

\* Where a call goes on once _reseed_if_needed is over.
AfterReseed(t) ==
    IF frame[t].op = "_reseed_if_needed" THEN "returned" ELSE "draw"

\* A mutant of NeedsReseed: the generator is re-seeded whatever the flag.
NeedsReseedAlways(flag) == TRUE

\* line 157: `if not using_sysrandom`
NeedsReseed(flag) == ~flag

\* _reseed_if_needed when nothing is to be done (lines 156-157).
reseed_skip(t) ==
    /\ frame[t].pc = "reseed"
    /\ ~NeedsReseed(frame[t].flag)
    /\ frame' = [frame EXCEPT ![t].pc = AfterReseed(t)]
    /\ UNCHANGED <<using_sysrandom, mt_state>>

\* line 164: random.getstate() and time.time() are read into data.  A
\* SystemRandom has no state: its getstate raises NotImplementedError.
reseed_getstate(t) ==
    /\ frame[t].pc = "reseed"
    /\ NeedsReseed(frame[t].flag)
    /\ IF using_sysrandom
       THEN frame' = [frame EXCEPT ![t].pc = "returned",
                                   ![t].ret = Raise("NotImplementedError")]
       ELSE \E now \in Times :
                frame' = [frame EXCEPT
                    ![t].pc = "seed",
                    ![t].data = [state |-> mt_state, time |-> now,
                                 key |-> _ensure_bytes(frame[t].secret_key)]]
    /\ UNCHANGED <<using_sysrandom, mt_state>>

\* line 165: random.seed(sha256(data).digest())
reseed_seed(t) ==
    /\ frame[t].pc = "seed"
    /\ mt_state' = SeedFromData(frame[t].data)
    /\ frame' = [frame EXCEPT ![t].pc = AfterReseed(t),
                              ![t].data = NoData,
                              ![t].reseeds = @ + 1]
    /\ UNCHANGED using_sysrandom

\* A mutant of random_choice: the generator is re-seeded before every
\* draw.
random_choice_reseeding(t) ==
    /\ frame[t].pc = "draw"
    /\ Len(frame[t].buf) < Length
    /\ IF using_sysrandom
       THEN /\ \E i \in DrawIndices :
                   frame' = [frame EXCEPT ![t].buf = Append(@, allowed_chars[i])]
            /\ UNCHANGED mt_state
       ELSE \E now \in Times :
               LET seeded == SeedFromData(
                       [state |-> mt_state, time |-> now,
                        key |-> _ensure_bytes(frame[t].secret_key)])
               IN /\ frame' = [frame EXCEPT
                         ![t].buf = Append(@, allowed_chars[
                                        MtChoice(seeded, Len(allowed_chars))]),
                         ![t].reseeds = @ + 1]
                  /\ mt_state' = MtNext(seeded)
    /\ UNCHANGED using_sysrandom

\* line 195: one random.choice(allowed_chars) of the generator expression
random_choice(t) ==
    /\ frame[t].pc = "draw"
    /\ Len(frame[t].buf) < Length
    /\ IF using_sysrandom
       THEN /\ \E i \in DrawIndices :
                   frame' = [frame EXCEPT ![t].buf = Append(@, allowed_chars[i])]
            /\ UNCHANGED mt_state
       ELSE /\ frame' = [frame EXCEPT ![t].buf =
                            Append(@, allowed_chars[MtChoice(mt_state, Len(allowed_chars))])]
            /\ mt_state' = MtNext(mt_state)
    /\ UNCHANGED using_sysrandom

\* What generate_session_id returns once base_id is drawn (lines 81-86).
SessionIdOf(base_id, secret_key, signed) ==
    IF signed
    THEN LET sig == _signature(base_id, _ensure_bytes(secret_key))
         IN IF sig.kind = "raise" THEN sig
            ELSE RetStr(base_id \o <<HYPHEN>> \o sig.str)
    ELSE RetStr(base_id)

\* line 195: the string is joined and returned to the caller, which
\* returns it (line 56, 86) or signs it (line 84).
return_string(t) ==
    /\ frame[t].pc = "draw"
    /\ Len(frame[t].buf) = Length
    /\ frame' = [frame EXCEPT
           ![t].pc = "returned",
           ![t].ret = IF frame[t].op = "generate_session_id"
                      THEN SessionIdOf(frame[t].buf, frame[t].secret_key,
                                       frame[t].signed)
                      ELSE RetStr(frame[t].buf),
           ![t].sigs = IF frame[t].op = "generate_session_id" /\ frame[t].signed
                       THEN 1 ELSE 0]
    /\ UNCHANGED <<using_sysrandom, mt_state>>

(***************************************************************************)
(* Session ids handed to check_session_id_signature: the one the caller    *)
(* has just generated (with the key and flag it was generated with), that  *)
(* one with a single character of its base id or signature replaced, or    *)
(* any short string with any key.  The function reads no state, so the     *)
(* short strings are tried by a caller that has made no call yet.          *)
(***************************************************************************)
Generated(t) ==
    /\ frame[t].pc = "returned"
    /\ frame[t].op = "generate_session_id"
    /\ frame[t].ret.kind = "str"

FreeTokens == UNION {[1..n -> TokenChars] : n \in 0..MaxFree}

CheckInput(s, k, b, o) ==
    [session_id |-> s, secret_key |-> k, signed |-> b, origin |-> o]

CheckInputs(t) ==
    (IF Generated(t)
     THEN {CheckInput(frame[t].ret.str, frame[t].secret_key, frame[t].signed,
                      "generated")}
     ELSE {})
    \cup
    (IF Generated(t) /\ frame[t].signed
     THEN LET tok == frame[t].ret.str
          IN {CheckInput([tok EXCEPT ![p] = c], frame[t].secret_key, TRUE,
                         "tampered") :
                 p \in (1..Len(tok)) \ {Len(frame[t].buf) + 1},
                 c \in TokenChars}
             \ {CheckInput(tok, frame[t].secret_key, TRUE, "tampered")}
     ELSE {})
    \cup
    (IF frame[t].pc = "idle"
     THEN {CheckInput(s, k, b, "free") :
              s \in FreeTokens, k \in Keys, b \in BOOLEAN}
     ELSE {})

\* check_session_id_signature called (lines 88-115)
check_session_id(t) ==
    /\ Ready(t)
    /\ \E in \in CheckInputs(t) :
           LET r == check_session_id_signature(in.session_id, in.secret_key,
                                               in.signed)
           IN frame' = [frame EXCEPT ![t] =
                  [IdleFrame EXCEPT !.pc = "returned",
                                    !.op = "check_session_id_signature",
                                    !.session_id = in.session_id,
                                    !.secret_key = in.secret_key,
                                    !.signed = in.signed,
                                    !.origin = in.origin,
                                    !.ret = r.ret, !.sigs = r.sigs]]
    /\ UNCHANGED <<using_sysrandom, mt_state>>

Step(t) ==
    \/ generate_session_id(t)
    \/ generate_secret_key(t)
    \/ call_reseed_if_needed(t)
    \/ reseed_skip(t)
    \/ reseed_getstate(t)
    \/ reseed_seed(t)
    \/ random_choice(t)
    \/ return_string(t)
    \/ check_session_id(t)

\* One caller at a time.
Next == \E t \in MainThread : Step(t)

Spec == Init /\ [][Next]_vars

\* Concurrent callers of the generating functions on the fallback
\* generator; a thread switch may come between any two steps.
InitConc == Init /\ ~using_sysrandom

GenStep(t) ==
    \/ generate_session_id(t)
    \/ generate_secret_key(t)
    \/ reseed_getstate(t)
    \/ reseed_seed(t)
    \/ random_choice(t)
    \/ return_string(t)

NextConc == \E t \in Threads : GenStep(t)

SpecConc == InitConc /\ [][NextConc]_vars

(***************************************************************************)
(* Properties                                                              *)
(***************************************************************************)
Chars(s) == {s[i] : i \in 1..Len(s)}

\* Index of the first '-' of s, 0 when s holds none.
FirstHyphen(s) ==
    IF HYPHEN \in Chars(s)
    THEN CHOOSE i \in 1..Len(s) :
             s[i] = HYPHEN /\ \A j \in 1..(i - 1) : s[j] # HYPHEN
    ELSE 0

BeforeHyphen(s) == SubSeq(s, 1, FirstHyphen(s) - 1)
AfterHyphen(s) == SubSeq(s, FirstHyphen(s) + 1, Len(s))

KeyPresent(k) == k.type # "None"

CheckDone(t) ==
    frame[t].pc = "returned" /\ frame[t].op = "check_session_id_signature"

GenerateDone(t) ==
    frame[t].pc = "returned" /\ frame[t].op = "generate_session_id"

ReturnedTrue(t) == frame[t].ret.kind = "bool" /\ frame[t].ret.bool
ReturnedFalse(t) == frame[t].ret.kind = "bool" /\ ~frame[t].ret.bool

\* C1: a session id generated with a key and a signed flag (the key
\* present when signed) is accepted by check_session_id_signature with the
\* same key and flag, under either randomness source and after any earlier
\* calls.
RoundTrip ==
    \A t \in Threads :
        (/\ CheckDone(t)
         /\ frame[t].origin = "generated"
         /\ (frame[t].signed => KeyPresent(frame[t].secret_key)))
        => ReturnedTrue(t)

\* C1 witness: on the fallback generator, a signed session id whose
\* signature holds a '-' has been generated with a text key and accepted.
RoundTripWitness ==
    \E t \in Threads :
        /\ CheckDone(t)
        /\ frame[t].origin = "generated"
        /\ frame[t].signed
        /\ frame[t].secret_key.type = "str"
        /\ ~using_sysrandom
        /\ HYPHEN \in Chars(AfterHyphen(frame[t].session_id))
        /\ ReturnedTrue(t)

\* C2: with signed=True and a key, check_session_id_signature returns True
\* exactly when the session id holds a '-' and the text after its first
\* '-' is the signature of the text before it; it returns False when the
\* session id holds no '-'.
VerifyFirstSplit ==
    \A t \in Threads :
        (CheckDone(t) /\ frame[t].signed /\ KeyPresent(frame[t].secret_key))
        => LET s == frame[t].session_id
               sig == _signature(BeforeHyphen(s), frame[t].secret_key)
           IN /\ ReturnedTrue(t) <=>
                    (FirstHyphen(s) > 0 /\ AfterHyphen(s) = sig.str)
              /\ FirstHyphen(s) = 0 => ReturnedFalse(t)

\* C2 witness: a session id with several '-', the first of them inside
\* what was the base id, has been rejected; the key is present.
VerifyFirstSplitWitness ==
    \E t \in Threads :
        /\ CheckDone(t)
        /\ frame[t].signed
        /\ KeyPresent(frame[t].secret_key)
        /\ frame[t].origin = "tampered"
        /\ FirstHyphen(frame[t].session_id) \in 1..Length
        /\ HYPHEN \in Chars(AfterHyphen(frame[t].session_id))
        /\ ReturnedFalse(t)

\* C2, second witness of the model's reach: a session id with two '-' or
\* more has been accepted.
AcceptedWithSeveralHyphens ==
    \E t \in Threads :
        /\ CheckDone(t)
        /\ frame[t].signed
        /\ HYPHEN \in Chars(AfterHyphen(frame[t].session_id))
        /\ ReturnedTrue(t)

\* C3 (as claimed): a generated signed session id with one character of
\* its base id or signature replaced makes check_session_id_signature
\* return False.
TamperReturnsFalse ==
    \A t \in Threads :
        (CheckDone(t) /\ frame[t].origin = "tampered") => ReturnedFalse(t)

\* Such a session id is never accepted (it is rejected or the call raises).
TamperNeverAccepted ==
    \A t \in Threads :
        (CheckDone(t) /\ frame[t].origin = "tampered") => ~ReturnedTrue(t)

\* C4: with signed=False check_session_id_signature returns True for every
\* session id and key, and computes no signature.
UnsignedAlwaysValid ==
    \A t \in Threads :
        (CheckDone(t) /\ ~frame[t].signed)
        => (ReturnedTrue(t) /\ frame[t].sigs = 0)

\* C4 witness: signed=False, no key, and a session id holding a '-' and a
\* non-ASCII character.
UnsignedAlwaysValidWitness ==
    \E t \in Threads :
        /\ CheckDone(t)
        /\ ~frame[t].signed
        /\ frame[t].secret_key = NoneKey
        /\ HYPHEN \in Chars(frame[t].session_id)
        /\ \E c \in Chars(frame[t].session_id) : c >= 128
        /\ ReturnedTrue(t)

\* C5: generate_session_id(None, signed=True) ends in an exception and
\* returns no session id.
SignWithoutKeyRaises ==
    \A t \in Threads :
        (GenerateDone(t) /\ frame[t].signed /\ ~KeyPresent(frame[t].secret_key))
        => (frame[t].ret.kind = "raise" /\ frame[t].ret.str = << >>)

\* C5 witness: such a call has drawn its base id and ended.
SignWithoutKeyWitness ==
    \E t \in Threads :
        /\ GenerateDone(t)
        /\ frame[t].signed
        /\ frame[t].secret_key = NoneKey
        /\ Len(frame[t].buf) = Length
        /\ frame[t].ret.kind = "raise"

\* C6 (as claimed): with signed=True and a key, check_session_id_signature
\* ends by returning a boolean for every session id.
CheckNeverRaises ==
    \A t \in Threads :
        (CheckDone(t) /\ frame[t].signed /\ KeyPresent(frame[t].secret_key))
        => frame[t].ret.kind = "bool"

\* Size of the unpadded base64 text of a digest.
SignatureLen == (digest_size * 8 + 5) \div 6

\* C7: a signed session id split on its first '-' gives the base id that
\* was drawn (Length characters of allowed_chars, none of them '-') and the
\* signature of that base id, which holds no '='.
SplitRecoversParts ==
    \A t \in Threads :
        (GenerateDone(t) /\ frame[t].signed /\ frame[t].ret.kind = "str")
        => LET s == frame[t].ret.str
               sig == _signature(frame[t].buf, frame[t].secret_key)
           IN /\ FirstHyphen(s) = Length + 1
              /\ BeforeHyphen(s) = frame[t].buf
              /\ Len(frame[t].buf) = Length
              /\ Chars(frame[t].buf) \subseteq Chars(allowed_chars)
              /\ HYPHEN \notin Chars(frame[t].buf)
              /\ AfterHyphen(s) = sig.str
              /\ Len(AfterHyphen(s)) = SignatureLen
              /\ PAD \notin Chars(AfterHyphen(s))
              /\ Chars(AfterHyphen(s)) \subseteq {B64Char(v) : v \in 0..63}

\* C7 witness: a signed session id whose signature holds a '-' has been
\* returned.
SplitRecoversPartsWitness ==
    \E t \in Threads :
        /\ GenerateDone(t)
        /\ frame[t].signed
        /\ frame[t].ret.kind = "str"
        /\ HYPHEN \in Chars(AfterHyphen(frame[t].ret.str))

\* A caller is using the generator: it has read the state for its re-seed
\* or seeded, and has characters left to draw.
InGenerator(t) ==
    \/ frame[t].pc = "seed"
    \/ frame[t].pc = "draw" /\ Len(frame[t].buf) < Length

\* C8 (as claimed): on the fallback generator no two callers are using the
\* generator at once.
MutualExclusion ==
    ~using_sysrandom =>
        \A t1, t2 \in Threads : (InGenerator(t1) /\ InGenerator(t2)) => t1 = t2

StringDone(t) ==
    /\ frame[t].pc = "returned"
    /\ frame[t].op \in {"generate_session_id", "generate_secret_key"}

\* C9 (as claimed): on the fallback generator a call that built a string of
\* Length characters has re-seeded Length times, once before each draw.
ReseedPerCharacter ==
    \A t \in Threads :
        (StringDone(t) /\ ~using_sysrandom) => frame[t].reseeds = Length

\* C9 (amended): on the fallback generator a call that builds a string
\* re-seeds once, before its first draw, and not again.
ReseedOncePerString ==
    \A t \in Threads :
        (/\ frame[t].op \in {"generate_session_id", "generate_secret_key"}
         /\ ~using_sysrandom)
        => /\ frame[t].pc \in {"reseed", "seed"}
                 => (frame[t].reseeds = 0 /\ frame[t].buf = << >>)
           /\ frame[t].pc \in {"draw", "returned"} => frame[t].reseeds = 1

\* C9 witness: on the fallback generator a string of Length >= 2
\* characters has been returned after one re-seed.
ReseedOncePerStringWitness ==
    \E t \in Threads :
        /\ StringDone(t)
        /\ ~using_sysrandom
        /\ Len(frame[t].buf) = Length
        /\ Length >= 2
        /\ frame[t].reseeds = 1

\* C10: using_sysrandom never changes; _reseed_if_needed with a true flag
\* leaves the generator state as it is; with a false flag on the fallback
\* generator it is not skipped and sets the state to the seed derived from
\* the state before, the time and the key; under the system generator the
\* state never changes.
ReseedOnlyOnFallback ==
    [][/\ using_sysrandom' = using_sysrandom
       /\ using_sysrandom => mt_state' = mt_state
       /\ \A t \in Threads :
            /\ (frame[t].pc = "reseed" /\ frame'[t].pc # "reseed" /\ frame[t].flag)
               => (mt_state' = mt_state /\ frame'[t].pc = AfterReseed(t)
                   /\ frame'[t].reseeds = 0)
            /\ (/\ frame[t].pc = "reseed" /\ frame'[t].pc # "reseed"
                /\ ~frame[t].flag /\ ~using_sysrandom)
               => (frame'[t].pc = "seed" /\ mt_state' = mt_state)
            /\ (frame[t].pc = "seed" /\ frame'[t].pc # "seed")
               => /\ ~frame[t].flag
                  /\ ~using_sysrandom
                  /\ frame'[t].reseeds = 1
                  /\ mt_state' = SeedFromData(
                         [state |-> mt_state, time |-> frame[t].data.time,
                          key |-> _ensure_bytes(frame[t].secret_key)])
      ]_vars

\* C10 witness: _reseed_if_needed(False, key) has re-seeded the fallback
\* generator and returned.
ReseedOnlyOnFallbackWitness ==
    \E t \in Threads :
        /\ frame[t].pc = "returned"
        /\ frame[t].op = "_reseed_if_needed"
        /\ ~frame[t].flag
        /\ ~using_sysrandom
        /\ frame[t].reseeds = 1

\* C10, second witness of the model's reach: _reseed_if_needed(True, key)
\* has returned on the fallback generator without re-seeding.
ReseedSkippedOnFallback ==
    \E t \in Threads :
        /\ frame[t].pc = "returned"
        /\ frame[t].op = "_reseed_if_needed"
        /\ frame[t].flag
        /\ ~using_sysrandom
        /\ frame[t].reseeds = 0

====
